---- MODULE Spec2Model ----
(***************************************************************************)
(* Character-level RNN lyrics generator                                    *)
(* (Chapter04/4.06 Generating Song Lyrics Using RNN.ipynb).                *)
(*                                                                         *)
(* The model follows the notebook's cells: the corpus `data`, the          *)
(* vocabulary (chars, vocab_size, char_to_ix, ix_to_char), one_hot_encoder,*)
(* the unrolled RNN graph, the clipped optimizer step and the              *)
(* training/sampling driver loop (`while True:`).                          *)
(*                                                                         *)
(* Numbers: characters are code points (integers).  Floating-point tensors *)
(* are quantised: a hidden state is one residue in 0..Levels-1 with its    *)
(* array shape, every parameter array is one residue, tanh is the          *)
(* squashing into that range, exp is 2^y.  The dataflow (what feeds what,  *)
(* what is assigned when) is the notebook's.                               *)
(***************************************************************************)
EXTENDS Integers, Sequences, FiniteSets, TLC

(* ----------------------------- bounds ---------------------------------- *)
\* longest corpus drawn
MaxLen == 7
\* the driver loop is cut after this many increments of `iteration`
MaxIter == 5
\* sampling / print intervals are drawn from 1..MaxInterval
MaxInterval == 2
\* seq_length = 25 in the notebook, scaled down
seq_length == 2
\* sample_length = 500 in the notebook, scaled down
sample_length == 2
\* quantisation levels of a tensor value
Levels == 3
\* number of states of a random generator
RngMod == 4
\* raw gradient components range over -GradRange..GradRange
GradRange == 7

(* ------------------------- program constants --------------------------- *)
hidden_size == 100
seed_value == 42
threshold == 5

\* the symbols a corpus is made of (code points)
Alphabet == {1, 2}

VARIABLES
    data,                   \* the corpus
    chars,                  \* sorted(list(set(data)))
    vocab_size,             \* len(chars)
    char_to_ix,             \* symbol -> index
    ix_to_char,             \* index -> symbol
    sample_every,           \* Ks: the literal 500 of `iteration % 500`
    print_every,            \* Kp: the literal 50000 of `iteration %50000`
    params,                 \* the tf variables U, W, V, bh, by
    gradients,              \* what compute_gradients returned in the last training step
    clipped_gradients,      \* what the last training step handed to the optimizer
    hprev_val,              \* carried hidden state
    pointer,                \* cursor into the corpus
    iteration,              \* iteration counter
    input_sentence,         \* training input window
    output_sentence,        \* training target window
    init_state,             \* value fed for the init_state placeholder by the last training run
    py_state,               \* state of Python's `random` generator
    np_state,               \* state of numpy's global generator
    random_index,           \* start of the sampling seed window
    sample_input_sent,      \* sampling seed window (symbols)
    sample_input_indices,   \* sampling window (indices)
    sample_prev_state_val,  \* hidden state of the rollout
    predicted_indices,      \* indices generated by the rollout
    t,                      \* generation steps done in the current rollout
    text,                   \* ''.join(predicted_chars)
    stdout,                 \* what was printed: <<iteration, text>> records
    pc,                     \* position in the driver loop
    run_no,                 \* which execution of the notebook this is
    first_run,              \* what the first execution's first rollout produced
    enc_index,              \* argument of a direct call of one_hot_encoder
    enc_out                 \* what that call returned or raised

vocab == <<data, chars, vocab_size, char_to_ix, ix_to_char>>
config == <<sample_every, print_every>>
training == <<params, gradients, clipped_gradients, hprev_val, pointer, iteration,
              input_sentence, output_sentence, init_state>>
sampling == <<py_state, np_state, random_index, sample_input_sent,
              sample_input_indices, sample_prev_state_val, predicted_indices,
              t, text, stdout>>
runs == <<run_no, first_run>>
encoder == <<enc_index, enc_out>>
vars == <<vocab, config, training, sampling, runs, encoder, pc>>

(* ------------------------- sequences, slices --------------------------- *)
Min(a, b) == IF a <= b THEN a ELSE b

SetOf(s) == {s[i] : i \in 1..Len(s)}

\* Python's s[a:b] for 0 <= a, b (the slice is cut at the end of s)
Slice(s, a, b) == SubSeq(s, a + 1, Min(b, Len(s)))

Corpora == UNION {[1..n -> Alphabet] : n \in 0..MaxLen}

(* ---------------------------- vocabulary ------------------------------- *)
\* list(S): the elements of a set in some order (here: descending)
RECURSIVE ListOf(_)
ListOf(S) ==
    IF S = {} THEN <<>>
    ELSE LET m == CHOOSE x \in S : \A y \in S : y <= x
         IN  <<m>> \o ListOf(S \ {m})

\* insert x into the ascending list s
RECURSIVE Insert(_, _)
Insert(x, s) ==
    IF s = <<>> THEN <<x>>
    ELSE IF x <= Head(s) THEN <<x>> \o s
    ELSE <<Head(s)>> \o Insert(x, Tail(s))

\* sorted(lst)
RECURSIVE SortedList(_)
SortedList(lst) ==
    IF lst = <<>> THEN <<>> ELSE Insert(Head(lst), SortedList(Tail(lst)))

\* a vocabulary built without set(): sorted(list(data))
CharsNoSet(d) == SortedList(d)

\* chars = sorted(list(set(data)))
Chars(d) == SortedList(ListOf(SetOf(d)))

\* a dictionary that numbers the symbols from 1
CharToIxOneBased(cs) ==
    [ch \in SetOf(cs) |->
        CHOOSE i \in 1..Len(cs) :
            cs[i] = ch /\ \A j \in 1..Len(cs) : cs[j] = ch => j <= i]

\* {ch: i for i, ch in enumerate(chars)}: a later entry overwrites an earlier one
CharToIx(cs) ==
    [ch \in SetOf(cs) |->
        (CHOOSE i \in 1..Len(cs) :
            cs[i] = ch /\ \A j \in 1..Len(cs) : cs[j] = ch => j <= i) - 1]

\* {i: ch for i, ch in enumerate(chars)}
IxToChar(cs) == [i \in 0..(Len(cs) - 1) |-> cs[i + 1]]

(* --------------------------- one-hot encoder --------------------------- *)
\* np.eye(vocab_size)[index] raises IndexError for an index outside [-V, V)
OneHotFails(V, index) == \E r \in 1..Len(index) : index[r] < -V \/ index[r] >= V

\* an encoder that puts the 1 one column too far
OneHotShifted(V, index) ==
    [r \in 1..Len(index) |->
        [c \in 0..(V - 1) |-> IF c = index[r] + 1 THEN 1 ELSE 0]]

\* np.eye(vocab_size)[index]: one row of the identity per index; a negative
\* index counts from the end
one_hot_encoder(V, index) ==
    [r \in 1..Len(index) |->
        [c \in 0..(V - 1) |->
            IF c = (IF index[r] < 0 THEN index[r] + V ELSE index[r]) THEN 1 ELSE 0]]

\* the column holding the 1 of a one-hot row (x_t . U selects that row of U)
Hot(row) == CHOOSE c \in DOMAIN row : row[c] = 1

(* ------------------------------ RNN graph ------------------------------ *)
\* np.zeros([1, hidden_size])
Zeros == [shape |-> <<1, hidden_size>>, val |-> 0]

\* a name that has not been assigned yet
Unbound == [shape |-> <<>>, val |-> 0]

Tanh(z) == z % Levels

\* h_t = tanh(x_t U + h_t W + bh)
Cell(p, h, x) == Tanh(p.U * (x + 1) + h * p.W + p.bh)

\* the hidden value after the first n steps of the unrolled loop
RECURSIVE HiddenAfter(_, _, _, _)
HiddenAfter(p, h, vec, n) ==
    IF n = 0 THEN h
    ELSE Cell(p, HiddenAfter(p, h, vec, n - 1), Hot(vec[n]))

\* hprev = h_t after the seq_length steps; tf.split gives every step
\* Len(vec) / seq_length rows, and the state takes that many rows
Hprev(p, h0, vec) ==
    LET rows == Len(vec) \div seq_length
    IN  [shape |-> <<rows, hidden_size>>,
         val   |-> IF rows = 0 THEN 0 ELSE HiddenAfter(p, h0.val, vec, seq_length)]

\* y_hat_t = h_t V + by, component i
Logit(p, h, i) == (h * (p.V + i) + p.by) % Levels

Exp(y) == 2 ^ y

\* output_softmax = softmax(y_hat[-1]), as the unnormalised weights exp(y_i)
SoftmaxWeights(p, h, V) == [i \in 0..(V - 1) |-> Exp(Logit(p, h, i))]

RECURSIVE Cdf(_, _)
Cdf(w, i) == IF i < 0 THEN 0 ELSE w[i] + Cdf(w, i - 1)

(* --------------------------- random sources ---------------------------- *)
\* one step of a generator
NextRandom(s) == (5 * s + 3) % RngMod

\* a categorical draw that may return the position after the last one
ChoicePastEnd(w, V, draw) ==
    LET u == draw % Cdf(w, V - 1)
    IN  1 + CHOOSE i \in 0..(V - 1) :
            Cdf(w, i) > u /\ \A j \in 0..(i - 1) : Cdf(w, j) <= u

\* np.random.choice(range(vocab_size), p=probs): the first index whose
\* cumulative weight exceeds the uniform draw
Choice(w, V, draw) ==
    LET u == draw % Cdf(w, V - 1)
    IN  CHOOSE i \in 0..(V - 1) :
            Cdf(w, i) > u /\ \A j \in 0..(i - 1) : Cdf(w, j) <= u

(* -------------------------- loss and optimizer ------------------------- *)
ParamNames == {"U", "W", "V", "bh", "by"}

Weight(k) ==
    CASE k = "U" -> 1 [] k = "W" -> 2 [] k = "V" -> 3 [] k = "bh" -> 4 [] k = "by" -> 5

\* the variables as initialised under tf.set_random_seed(seed_value)
InitialParams == [k \in ParamNames |-> (seed_value \div Weight(k)) % Levels]

RECURSIVE TargetLogits(_, _, _, _, _)
TargetLogits(p, h0, vec, tgt, n) ==
    IF n = 0 THEN 0
    ELSE Logit(p, HiddenAfter(p, h0, vec, n), Hot(tgt[n]))
         + TargetLogits(p, h0, vec, tgt, n - 1)

\* gradients = minimizer.compute_gradients(loss), component of variable k
Gradient(p, h0, vec, tgt, k) ==
    LET n == IF Len(vec) = seq_length THEN seq_length ELSE 0
        e == TargetLogits(p, h0.val, vec, tgt, n)
    IN  (((e + 1) * Weight(k) + p[k]) % (2 * GradRange + 1)) - GradRange

\* a clip that bounds the gradient from above only
ClipUpperOnly(g) == IF g > threshold THEN threshold ELSE g

\* tf.clip_by_value(grad, -threshold, threshold)
Clip(g) == IF g < -threshold THEN -threshold ELSE IF g > threshold THEN threshold ELSE g

Sign(g) == IF g > 0 THEN 1 ELSE IF g < 0 THEN -1 ELSE 0

\* minimizer.apply_gradients(clipped_gradients): an adaptive step against the gradient
ApplyGradients(p, g) == [k \in ParamNames |-> (p[k] - Sign(g[k])) % Levels]

\* what sess.run does with the fed shapes: tf.split needs the rows to divide
\* by seq_length, the loss needs as many target rows as logits; tensors with
\* no rows at all are either refused or run through
RunOutcomes(rows_in, rows_tgt) ==
    IF rows_in = seq_length /\ rows_tgt = seq_length THEN {"ok"}
    ELSE IF rows_in = 0 /\ rows_tgt = 0 THEN {"ok", "error"}
    ELSE {"error"}

\* how the encoding and the training sess.run of one step end: an index the
\* identity matrix does not have raises IndexError before anything is run
TrainOutcomes(input_indices, target_indices) ==
    IF OneHotFails(vocab_size, input_indices) \/ OneHotFails(vocab_size, target_indices)
    THEN {"error"}
    ELSE RunOutcomes(Len(input_indices), Len(target_indices))

(* ------------------------------- driver -------------------------------- *)
NoRun == [window |-> <<>>, output |-> <<>>]

\* one_hot_encoder has not been called directly
NotCalled == [status |-> "none", rows |-> <<>>]

Init ==
    /\ data \in Corpora
    /\ chars = Chars(data)
    /\ vocab_size = Len(chars)
    /\ char_to_ix = CharToIx(chars)
    /\ ix_to_char = IxToChar(chars)
    /\ sample_every \in 1..MaxInterval
    /\ print_every \in 1..MaxInterval
    /\ params = InitialParams
    /\ gradients = [k \in ParamNames |-> 0]
    /\ clipped_gradients = [k \in ParamNames |-> 0]
    /\ hprev_val = Unbound
    /\ pointer = 0
    /\ iteration = 0
    /\ input_sentence = <<>>
    /\ output_sentence = <<>>
    /\ init_state = Unbound
    /\ py_state = seed_value % RngMod
    /\ np_state \in 0..(RngMod - 1)
    /\ random_index = 0
    /\ sample_input_sent = <<>>
    /\ sample_input_indices = <<>>
    /\ sample_prev_state_val = Unbound
    /\ predicted_indices = <<>>
    /\ t = 0
    /\ text = <<>>
    /\ stdout = <<>>
    /\ pc = "train"
    /\ run_no = 1
    /\ first_run = NoRun
    /\ enc_index = <<>>
    /\ enc_out = NotCalled

\* a wrap test with > for >=
WrapTestStrict == pointer + seq_length + 1 > Len(data) \/ iteration = 0

\* a wrap test that forgets the first iteration
WrapTestNoFirst == pointer + seq_length + 1 >= Len(data)

\* the wrap test of the loop head
WrapTest == pointer + seq_length + 1 >= Len(data) \/ iteration = 0

\* the cursor the step works at
Cursor == IF WrapTest THEN 0 ELSE pointer

\* a step that starts every window from the zero state
FedStateAlwaysZero == Zeros

\* the hidden state the step feeds
FedState == IF WrapTest THEN Zeros ELSE hprev_val

\* a sampling test that skips the first iteration
SampleDueSkipFirst == iteration > 0 /\ iteration % sample_every = 0

\* if iteration % 500 == 0
SampleDue == iteration % sample_every = 0

\* a print test that ignores the print interval
PrintDueAlways == TRUE

\* if iteration %50000 == 0 (inside the sampling block)
PrintDue == iteration % print_every = 0

Indices(sentence) == [i \in 1..Len(sentence) |-> char_to_ix[sentence[i]]]

\* one pass through the loop body up to and including the training sess.run;
\* every value of the step is bound once, where the code assigns it
Train ==
    /\ pc = "train"
    /\ \E inp \in {Slice(data, Cursor, Cursor + seq_length)} :
       \E out \in {Slice(data, Cursor + 1, Cursor + seq_length + 1)} :
       \E fed \in {FedState} :
       \E input_indices \in {Indices(inp)} :
       \E target_indices \in {Indices(out)} :
          /\ pointer' = Cursor
          /\ input_sentence' = inp
          /\ output_sentence' = out
          /\ init_state' = fed
          /\ \E outcome \in TrainOutcomes(input_indices, target_indices) :
               IF outcome = "ok"
               THEN \E input_vector \in {one_hot_encoder(vocab_size, input_indices)} :
                    \E target_vector \in {one_hot_encoder(vocab_size, target_indices)} :
                    \E grads \in {[k \in ParamNames |->
                                     Gradient(params, fed, input_vector, target_vector, k)]} :
                       /\ hprev_val' = Hprev(params, fed, input_vector)
                       /\ gradients' = grads
                       /\ clipped_gradients' = [k \in ParamNames |-> Clip(grads[k])]
                       /\ params' = ApplyGradients(params, clipped_gradients')
                       /\ pc' = IF SampleDue THEN "sample_init" ELSE "advance"
               ELSE /\ hprev_val' = fed
                    /\ UNCHANGED <<gradients, clipped_gradients, params>>
                    /\ pc' = "error"
    /\ UNCHANGED <<encoder, vocab, config, iteration, sampling, runs>>

\* a sampling head that draws the seed position from 0..len(data)
SampleInitPastEnd ==
    /\ pc = "sample_init"
    /\ py_state' = NextRandom(py_state)
    /\ random_index' = py_state' % (Len(data) + 1)
    /\ sample_input_sent' = Slice(data, random_index', random_index' + seq_length)
    /\ sample_input_indices' = Indices(sample_input_sent')
    /\ sample_prev_state_val' = hprev_val
    /\ predicted_indices' = <<>>
    /\ t' = 0
    /\ pc' = "sample_loop"
    /\ UNCHANGED <<np_state, text, stdout>>
    /\ UNCHANGED <<encoder, vocab, config, training, runs>>

\* the head of the sampling block: seed window, cloned state, empty output
SampleInit ==
    /\ pc = "sample_init"
    /\ IF Len(data) - seq_length < 0
       THEN \* random.randint(0, negative) raises ValueError
            /\ pc' = "error"
            /\ UNCHANGED sampling
       ELSE /\ py_state' = NextRandom(py_state)
            /\ random_index' = py_state' % (Len(data) - seq_length + 1)
            /\ sample_input_sent' = Slice(data, random_index', random_index' + seq_length)
            /\ sample_input_indices' = Indices(sample_input_sent')
            /\ sample_prev_state_val' = hprev_val
            /\ predicted_indices' = <<>>
            /\ t' = 0
            /\ pc' = "sample_loop"
            /\ UNCHANGED <<np_state, text, stdout>>
    /\ UNCHANGED <<encoder, vocab, config, training, runs>>

\* a generation step that writes its state into the carried hprev_val
SampleStepAliased ==
    /\ pc = "sample_loop"
    /\ t < sample_length
    /\ LET sample_input_vector == one_hot_encoder(vocab_size, sample_input_indices)
           state == Hprev(params, sample_prev_state_val, sample_input_vector)
           probs_dist == SoftmaxWeights(params, state.val, vocab_size)
           ix == Choice(probs_dist, vocab_size, np_state')
       IN  /\ np_state' = NextRandom(np_state)
           /\ sample_prev_state_val' = state
           /\ hprev_val' = state
           /\ sample_input_indices' = Tail(sample_input_indices) \o <<ix>>
           /\ predicted_indices' = Append(predicted_indices, ix)
    /\ t' = t + 1
    /\ UNCHANGED <<py_state, random_index, sample_input_sent, text, stdout, pc>>
    /\ UNCHANGED <<encoder, vocab, config, params, gradients, clipped_gradients, pointer, iteration,
                   input_sentence, output_sentence, init_state, runs>>

\* one pass through the body of `for t in range(sample_length)`
SampleStep ==
    /\ pc = "sample_loop"
    /\ t < sample_length
    /\ IF OneHotFails(vocab_size, sample_input_indices)
       THEN \* one_hot_encoder raises IndexError
            /\ pc' = "error"
            /\ UNCHANGED sampling
       ELSE LET sample_input_vector == one_hot_encoder(vocab_size, sample_input_indices)
                state == Hprev(params, sample_prev_state_val, sample_input_vector)
                probs_dist == SoftmaxWeights(params, state.val, vocab_size)
                ix == Choice(probs_dist, vocab_size, np_state')
            IN  /\ np_state' = NextRandom(np_state)
                /\ sample_prev_state_val' = state
                /\ sample_input_indices' = Tail(sample_input_indices) \o <<ix>>
                /\ predicted_indices' = Append(predicted_indices, ix)
                /\ t' = t + 1
                /\ UNCHANGED <<py_state, random_index, sample_input_sent, text, stdout, pc>>
    /\ UNCHANGED <<encoder, vocab, config, training, runs>>

\* after the loop: the text, and the print on every print_every-th iteration
SampleEnd ==
    /\ pc = "sample_loop"
    /\ t = sample_length
    /\ text' = [i \in 1..Len(predicted_indices) |-> ix_to_char[predicted_indices[i]]]
    /\ stdout' = IF PrintDue
                 THEN Append(stdout, [iteration |-> iteration, text |-> text'])
                 ELSE stdout
    /\ pc' = "advance"
    /\ UNCHANGED <<py_state, np_state, random_index, sample_input_sent,
                   sample_input_indices, sample_prev_state_val, predicted_indices, t>>
    /\ UNCHANGED <<encoder, vocab, config, training, runs>>

\* pointer += seq_length; iteration += 1
\* a loop tail that starts the count again whenever the next cursor wraps
AdvanceResetOnWrap ==
    /\ pc = "advance"
    /\ iteration < MaxIter
    /\ pointer' = pointer + seq_length
    /\ iteration' = IF pointer' + seq_length + 1 >= Len(data) THEN 0 ELSE iteration + 1
    /\ pc' = "train"
    /\ UNCHANGED <<params, gradients, clipped_gradients, hprev_val, input_sentence,
                   output_sentence, init_state>>
    /\ UNCHANGED <<encoder, vocab, config, sampling, runs>>

\* the tail of the loop body: pointer += seq_length; iteration += 1
Advance ==
    /\ pc = "advance"
    /\ iteration < MaxIter
    /\ pointer' = pointer + seq_length
    /\ iteration' = iteration + 1
    /\ pc' = "train"
    /\ UNCHANGED <<params, gradients, clipped_gradients, hprev_val, input_sentence,
                   output_sentence, init_state>>
    /\ UNCHANGED <<encoder, vocab, config, sampling, runs>>

Next == Train \/ SampleInit \/ SampleStep \/ SampleEnd \/ Advance

Spec == Init /\ [][Next]_vars

\* the notebook is executed a second time from the top, once the first
\* execution has finished the rollout of iteration 0: the same corpus, the
\* same seed_value for `random` and tensorflow; numpy's generator starts
\* from fresh entropy, as it does in every process
Restart ==
    /\ pc = "advance"
    /\ iteration = 0
    /\ run_no = 1
    /\ run_no' = 2
    /\ first_run' = [window |-> sample_input_sent, output |-> predicted_indices]
    /\ params' = InitialParams
    /\ gradients' = [k \in ParamNames |-> 0]
    /\ clipped_gradients' = [k \in ParamNames |-> 0]
    /\ hprev_val' = Unbound
    /\ pointer' = 0
    /\ iteration' = 0
    /\ input_sentence' = <<>>
    /\ output_sentence' = <<>>
    /\ init_state' = Unbound
    /\ py_state' = seed_value % RngMod
    /\ np_state' \in 0..(RngMod - 1)
    /\ random_index' = 0
    /\ sample_input_sent' = <<>>
    /\ sample_input_indices' = <<>>
    /\ sample_prev_state_val' = Unbound
    /\ predicted_indices' = <<>>
    /\ t' = 0
    /\ text' = <<>>
    /\ stdout' = <<>>
    /\ pc' = "train"
    /\ UNCHANGED <<encoder, vocab, config>>

\* two executions of the notebook, each up to the end of its first rollout
ReproNext == Train \/ SampleInit \/ SampleStep \/ SampleEnd \/ Restart

ReproSpec == Init /\ [][ReproNext]_vars

(* ------------------- one_hot_encoder called on its own ----------------- *)
\* the integers a caller may pass: every index of the largest vocabulary and
\* some on either side of it
IndexRange == (0 - Cardinality(Alphabet) - 1)..(Cardinality(Alphabet) + 1)

\* one call one_hot_encoder(index) with a list of at most seq_length integers,
\* under the vocabulary of the corpus
Encode ==
    /\ enc_out = NotCalled
    /\ \E n \in 0..seq_length : \E index \in [1..n -> IndexRange] :
          /\ enc_index' = index
          /\ enc_out' = IF OneHotFails(vocab_size, index)
                        THEN [status |-> "IndexError", rows |-> <<>>]
                        ELSE [status |-> "ok", rows |-> one_hot_encoder(vocab_size, index)]
    /\ UNCHANGED <<vocab, config, training, sampling, runs, pc>>

\* the vocabulary of any corpus, one sampling configuration
EncoderInit == Init /\ sample_every = 1 /\ print_every = 1 /\ np_state = 0

EncoderSpec == EncoderInit /\ [][Encode]_vars

(* ------------------------------- claims -------------------------------- *)
\* the driver is past the training run of the current iteration: `pointer`
\* is the cursor that step worked at
AfterTrain == pc \in {"sample_init", "sample_loop", "advance", "error"}

\* C1: at every training step the input window is the L symbols at the
\* cursor, the target window the L symbols one position further, and both
\* have length exactly seq_length.
WindowInvariant ==
    AfterTrain =>
        /\ Len(input_sentence) = seq_length
        /\ Len(output_sentence) = seq_length
        /\ \A i \in 0..(seq_length - 1) :
              /\ input_sentence[i + 1] = data[pointer + i + 1]
              /\ output_sentence[i + 1] = data[pointer + 1 + i + 1]

\* C2: a step that starts with the wrap test true, or that is the first step,
\* feeds the all-zero hidden state (and works at cursor 0), whatever the
\* carried state was.
ResetFeedsZero ==
    [][(/\ pc = "train"
        /\ pc' # "train"
        /\ (pointer + seq_length + 1 >= Len(data) \/ iteration = 0))
       => (init_state' = Zeros /\ pointer' = 0)]_vars

\* C2 witness: the loop head, after the first step, with a wrap due and a
\* non-zero carried hidden state that the step is about to discard
ResetFeedsZeroWitness ==
    /\ pc = "train"
    /\ iteration > 0
    /\ pointer + seq_length + 1 >= Len(data)
    /\ hprev_val.val # 0
    /\ ENABLED Train

\* C3: between two consecutive training steps the cursor is advanced by
\* seq_length and then reset to 0 exactly when the advanced cursor c has
\* c + seq_length + 1 >= len(data); nothing else moves it; the cursor of a
\* training window is a non-negative multiple of seq_length.
CursorSteps ==
    /\ [](AfterTrain => pointer >= 0 /\ pointer % seq_length = 0)
    /\ [][/\ (pc = "advance" /\ pc' = "train") => pointer' = pointer + seq_length
          /\ (pc = "train" /\ pc' # "train" /\ iteration > 0) =>
                pointer' = IF pointer + seq_length + 1 >= Len(data) THEN 0 ELSE pointer
          /\ (pc \notin {"advance", "train"}) => pointer' = pointer]_vars

\* C3 witness: a pass of two windows is over and the cursor is back at 0
CursorStepsWitness ==
    /\ AfterTrain
    /\ iteration >= 2
    /\ pointer = 0
    /\ Len(data) >= 2 * seq_length + 2

\* C4: when no wrap is due, the step feeds exactly the hidden state the
\* previous training step returned: the training run stores its final state
\* in hprev_val, nothing between two training runs (a sampling rollout
\* included) changes hprev_val, and the next run feeds it.
CarryOver ==
    [][/\ (pc = "train" /\ pc' \notin {"train", "error"}) =>
             hprev_val' = Hprev(params, init_state',
                                one_hot_encoder(vocab_size, Indices(input_sentence')))
       /\ (pc # "train") => hprev_val' = hprev_val
       /\ (/\ pc = "train"
           /\ pc' # "train"
           /\ ~(pointer + seq_length + 1 >= Len(data) \/ iteration = 0))
          => init_state' = hprev_val]_vars

\* C4 witness: a step inside a pass was fed a non-zero carried state, with a
\* rollout after every training step
CarryOverWitness ==
    /\ pc = "advance"
    /\ sample_every = 1
    /\ pointer > 0
    /\ init_state.val # 0

RolloutLength ==
    /\ [](pc = "sample_loop" =>
             /\ t <= sample_length
             /\ Len(predicted_indices) = t
             /\ \A i \in 1..t : predicted_indices[i] \in 0..(vocab_size - 1)
             /\ ENABLED (SampleStep \/ SampleEnd))
    /\ [](pc = "advance" /\ iteration % sample_every = 0 =>
             /\ Len(predicted_indices) = sample_length
             /\ Len(text) = sample_length
             /\ \A i \in 1..sample_length :
                   text[i] \in SetOf(data) /\ text[i] = ix_to_char[predicted_indices[i]])
    /\ [][pc = "sample_loop" =>
             \/ pc' = "sample_loop" /\ t' = t + 1
                  /\ Len(predicted_indices') = Len(predicted_indices) + 1
             \/ t = sample_length /\ pc' = "advance"]_vars

\* C6 witness: a rollout is over, with sample_length symbols that are not
\* all the same, and the driver is at its increment
RolloutLengthWitness ==
    /\ pc = "advance"
    /\ t = sample_length
    /\ Len(text) = sample_length
    /\ \E i, j \in 1..sample_length : predicted_indices[i] # predicted_indices[j]

\* C7: two executions of the program from the same seed_value, with the same
\* corpus (hence the same initial parameters and the same hidden state after
\* the first training step), pick the same seed window and sample the same
\* sample_length indices.
SameSeedSameRollout ==
    (run_no = 2 /\ pc = "advance") =>
        /\ sample_input_sent = first_run.window
        /\ predicted_indices = first_run.output

\* C8: a rollout starts at an iteration exactly when the counter is a
\* multiple of sample_every (iteration 0 included); it is entered only
\* straight from that iteration's training run, whose returned state is in
\* hprev_val, and it starts from a copy of hprev_val with no output yet.
RolloutSchedule ==
    /\ []((pc \in {"sample_init", "sample_loop"}) => iteration % sample_every = 0)
    /\ [][/\ (pc = "train" /\ pc' \notin {"train", "error"}) =>
                /\ (pc' = "sample_init") <=> (iteration % sample_every = 0)
                /\ (pc' = "advance") <=> (iteration % sample_every # 0)
                /\ hprev_val' = Hprev(params, init_state',
                                      one_hot_encoder(vocab_size, Indices(input_sentence')))
          /\ (pc # "sample_init" /\ pc' = "sample_init") => pc = "train"
          /\ (pc # "sample_loop" /\ pc' = "sample_loop") =>
                /\ pc = "sample_init"
                /\ sample_prev_state_val' = hprev_val
                /\ predicted_indices' = <<>>
                /\ t' = 0
          /\ (pc = "advance" /\ pc' = "train") => iteration' = iteration + 1]_vars

\* C8 witness: with a sampling interval of 2, the rollout of iteration 2
\* starts from the non-zero state its training run returned
RolloutScheduleWitness ==
    /\ pc = "sample_loop"
    /\ t = 0
    /\ sample_every = 2
    /\ iteration = 2
    /\ sample_prev_state_val = hprev_val
    /\ hprev_val.val # 0

PrintedAt(i) == \E k \in 1..Len(stdout) : stdout[k].iteration = i

\* iteration i has run to its increment
Completed(i) == i < iteration \/ (i = iteration /\ pc = "advance")

\* C9 (as amended): the text generated at an iteration is printed exactly at
\* the iterations whose counter is a multiple of both sample_every and
\* print_every, and what is printed is that iteration's text.
PrintsWhenBothDue ==
    /\ \A i \in 0..iteration :
          /\ PrintedAt(i) => (i % sample_every = 0 /\ i % print_every = 0)
          /\ (Completed(i) /\ i % sample_every = 0 /\ i % print_every = 0) => PrintedAt(i)
    /\ (pc = "advance" /\ PrintedAt(iteration)) =>
          stdout[Len(stdout)] = [iteration |-> iteration, text |-> text]

\* C9 witness: sampling every 2nd iteration and printing due at every
\* iteration, iterations 0..2 are over and exactly two texts were printed
PrintsWhenBothDueWitness ==
    /\ pc = "advance"
    /\ sample_every = 2
    /\ print_every = 1
    /\ iteration = 2
    /\ Len(stdout) = 2

\* C9 (as stated): the text is printed at every iteration whose counter is a
\* multiple of print_every and at no other, whatever the two intervals are.
PrintsEveryPrintInterval ==
    \A i \in 0..iteration :
        /\ PrintedAt(i) => i % print_every = 0
        /\ (Completed(i) /\ i % print_every = 0) => PrintedAt(i)

\* C10: the vocabulary has one entry per distinct symbol of the corpus, its
\* indices are 0..vocab_size-1, and char_to_ix and ix_to_char are inverse to
\* each other.
VocabularyBijection ==
    /\ Len(chars) = Cardinality(SetOf(data))
    /\ vocab_size = Cardinality(SetOf(data))
    /\ DOMAIN char_to_ix = SetOf(data)
    /\ DOMAIN ix_to_char = 0..(vocab_size - 1)
    /\ \A c \in SetOf(data) :
          char_to_ix[c] \in 0..(vocab_size - 1) /\ ix_to_char[char_to_ix[c]] = c
    /\ \A i \in 0..(vocab_size - 1) :
          ix_to_char[i] \in SetOf(data) /\ char_to_ix[ix_to_char[i]] = i

\* C10 witness: a corpus with a repeated symbol whose symbols do not come in
\* sorted order, in use by the driver
VocabularyBijectionWitness ==
    /\ AfterTrain
    /\ Len(data) >= 3
    /\ data[1] > data[2]
    /\ data[3] = data[1]
    /\ vocab_size = 2
    /\ chars[1] = data[2]

\* np.argmax of one row: the first column holding the largest entry
ArgMax(row) ==
    CHOOSE c \in DOMAIN row :
        /\ \A d \in DOMAIN row : row[d] <= row[c]
        /\ \A d \in DOMAIN row : d < c => row[d] < row[c]

InVocabulary(index) == \A r \in 1..Len(index) : index[r] \in 0..(vocab_size - 1)

\* C11: for a sequence of indices that all lie in [0, vocab_size),
\* one_hot_encoder returns one row per index, each row of width vocab_size
\* with exactly one 1, at the column of that index, so the argmax of every
\* row gives the index back.
OneHotRoundTrip ==
    (enc_out # NotCalled /\ InVocabulary(enc_index)) =>
        /\ enc_out.status = "ok"
        /\ Len(enc_out.rows) = Len(enc_index)
        /\ \A r \in 1..Len(enc_index) :
              /\ DOMAIN enc_out.rows[r] = 0..(vocab_size - 1)
              /\ \A c \in 0..(vocab_size - 1) : enc_out.rows[r][c] \in {0, 1}
              /\ {c \in 0..(vocab_size - 1) : enc_out.rows[r][c] = 1} = {enc_index[r]}
              /\ ArgMax(enc_out.rows[r]) = enc_index[r]

OneHotRoundTripWitness ==
    /\ enc_out # NotCalled
    /\ InVocabulary(enc_index)
    /\ vocab_size = 2
    /\ enc_index = <<1, 0>>
    /\ enc_out.status = "ok"
    /\ ArgMax(enc_out.rows[1]) = 1
    /\ ArgMax(enc_out.rows[2]) = 0

Known(sentence) == \A i \in 1..Len(sentence) : sentence[i] \in DOMAIN char_to_ix

\* C12: in every reachable state of the driver every symbol of the training
\* input window, the target window and the sampling seed window has an entry
\* in char_to_ix, and every index given to one_hot_encoder or looked up in
\* ix_to_char, the sampled ones included, lies in [0, vocab_size), so that
\* one_hot_encoder does not fail on any of them.
NoUnknownSymbol ==
    /\ Known(input_sentence) /\ Known(output_sentence) /\ Known(sample_input_sent)
    /\ InVocabulary(Indices(input_sentence))
    /\ InVocabulary(Indices(output_sentence))
    /\ InVocabulary(Indices(sample_input_sent))
    /\ InVocabulary(sample_input_indices)
    /\ InVocabulary(predicted_indices)
    /\ \A i \in 1..Len(predicted_indices) : predicted_indices[i] \in DOMAIN ix_to_char
    /\ ~OneHotFails(vocab_size, Indices(input_sentence))
    /\ ~OneHotFails(vocab_size, Indices(output_sentence))
    /\ ~OneHotFails(vocab_size, sample_input_indices)

\* a rollout on a two-symbol vocabulary has encoded windows holding both
\* symbols and has decoded its sampled indices
NoUnknownSymbolWitness ==
    /\ vocab_size = 2
    /\ pc = "advance"
    /\ SetOf(input_sentence) = {1, 2}
    /\ Len(output_sentence) = seq_length
    /\ Len(sample_input_sent) = seq_length
    /\ Len(predicted_indices) = sample_length
    /\ Len(text) = sample_length
    /\ \E i \in 1..Len(predicted_indices) : predicted_indices[i] = vocab_size - 1

\* C13: with an empty corpus the run is rejected before any training step is
\* attempted: the loop body is never entered, so no feed state is prepared, no
\* forward pass or parameter update is run, and the cursor and the iteration
\* counter stay where they started.
EmptyCorpusRejected ==
    data = <<>> =>
        /\ pc \in {"train", "error"}
        /\ init_state = Unbound
        /\ hprev_val = Unbound
        /\ params = InitialParams
        /\ pointer = 0
        /\ iteration = 0

\* C14: a call of one_hot_encoder with a list that holds an integer outside
\* [0, vocab_size) fails with an index error and returns no matrix.
OutOfVocabularyFails ==
    (enc_out # NotCalled /\ ~InVocabulary(enc_index)) =>
        /\ enc_out.status = "IndexError"
        /\ enc_out.rows = <<>>

\* a corpus that holds at least one full input and target window
WellFormed == Len(data) >= seq_length + 1

\* C15: for a well-formed corpus the driver never stops by itself: no step
\* ends in an error and from every reachable state a next step is enabled
\* (up to the iteration budget MaxIter of the model), a rollout being at
\* most sample_length steps long; the iteration counter changes only at the
\* tail of a training step, there by exactly +1, every return to the head of
\* the loop has counted one step, and no step resets the counter, a step at
\* which the cursor wraps included.
NoTerminalState ==
    /\ [](WellFormed =>
            /\ pc # "error"
            /\ t <= sample_length
            /\ (pc = "advance" /\ iteration = MaxIter) \/ ENABLED Next)
    /\ [][(WellFormed /\ iteration' # iteration) =>
            (pc = "advance" /\ pc' = "train" /\ iteration' = iteration + 1)]_vars
    /\ [][(WellFormed /\ pc' = "train") =>
            (pc = "advance" /\ iteration' = iteration + 1)]_vars

\* the cursor has wrapped at a later iteration and the loop goes on counting
NoTerminalStateWitness ==
    /\ WellFormed
    /\ pc = "advance"
    /\ iteration >= 2
    /\ pointer = 0
    /\ init_state = Zeros
    /\ ENABLED Advance

\* C16: in every training step each gradient component handed to the
\* optimizer lies in [-threshold, threshold] = [-5, 5]: it is the raw
\* component when that lies in the interval, threshold when the raw one is
\* larger and -threshold when it is smaller; this holds for the gradient of
\* every parameter, and the update of a step is computed from the clipped
\* components of that same step.
GradientsClipped ==
    /\ [](/\ DOMAIN gradients = ParamNames
          /\ DOMAIN clipped_gradients = ParamNames
          /\ \A k \in ParamNames :
                /\ clipped_gradients[k] \in (0 - threshold)..threshold
                /\ (gradients[k] \in (0 - threshold)..threshold)
                       => clipped_gradients[k] = gradients[k]
                /\ gradients[k] > threshold => clipped_gradients[k] = threshold
                /\ gradients[k] < 0 - threshold => clipped_gradients[k] = 0 - threshold)
    /\ [][(pc = "train" /\ pc' # "error") =>
             (params' = ApplyGradients(params, clipped_gradients'))]_vars
    /\ [][(params' # params) => (pc = "train" /\ pc' # "error")]_vars

\* a training step whose raw gradients lie above, below and inside the interval
GradientsClippedWitness ==
    /\ pc = "advance"
    /\ \E k \in ParamNames : gradients[k] > threshold /\ clipped_gradients[k] = threshold
    /\ \E k \in ParamNames : gradients[k] < 0 - threshold /\ clipped_gradients[k] = 0 - threshold
    /\ \E k \in ParamNames : gradients[k] # 0 /\ clipped_gradients[k] = gradients[k]

\* the last n elements of a sequence
LastN(s, n) == SubSeq(s, Len(s) - n + 1, Len(s))

\* C18: throughout a rollout the sampling window has exactly seq_length
\* entries: the seed window is the seq_length symbols of the corpus from
\* random_index on, for every position random.randint can return; every
\* generation step appends one index to the output and makes the window the
\* old window without its first entry followed by that index; so the window
\* is the last seq_length entries of seed followed by output, and after
\* seq_length or more steps it holds generated indices only.
SamplingWindow ==
    /\ [](pc = "sample_loop" =>
            /\ \A r \in 0..(Len(data) - seq_length) :
                  Slice(data, r, r + seq_length) = [i \in 1..seq_length |-> data[r + i]]
            /\ random_index \in 0..(Len(data) - seq_length)
            /\ sample_input_sent = [i \in 1..seq_length |-> data[random_index + i]]
            /\ Len(sample_input_indices) = seq_length
            /\ sample_input_indices =
                  LastN(Indices(sample_input_sent) \o predicted_indices, seq_length)
            /\ t >= seq_length =>
                  sample_input_indices = LastN(predicted_indices, seq_length))
    /\ [][(pc = "sample_loop" /\ pc' = "sample_loop") =>
            /\ Len(predicted_indices') = Len(predicted_indices) + 1
            /\ SubSeq(predicted_indices', 1, Len(predicted_indices)) = predicted_indices
            /\ sample_input_indices' =
                  Tail(sample_input_indices) \o <<predicted_indices'[Len(predicted_indices')]>>]_vars

\* a rollout seeded at the last position of the corpus has replaced its whole
\* window by generated indices that differ from the seed
SamplingWindowWitness ==
    /\ pc = "sample_loop"
    /\ random_index = Len(data) - seq_length
    /\ random_index > 0
    /\ t >= seq_length
    /\ sample_input_indices = LastN(predicted_indices, seq_length)
    /\ sample_input_indices # Indices(sample_input_sent)

\* the number of training steps of one pass over the corpus: the cursors
\* k * seq_length that are trained before the wrap test sends the next one to 0
PassLength ==
    Cardinality({k \in 0..Len(data) : k = 0 \/ k * seq_length + seq_length + 1 < Len(data)})

\* C19: for a corpus of at least seq_length + 1 symbols every pass is the same
\* finite sequence of cursors 0, seq_length, 2 * seq_length, ...: a pass has
\* PassLength <= len(data) training steps, the step of iteration i works at
\* cursor seq_length * (i mod PassLength), the step after the last cursor of
\* a pass wraps to 0 and feeds the zero hidden state, and the step that
\* starts the next pass is always enabled, so that wraps and resets recur
\* for as long as the loop runs.
PassesRepeat ==
    /\ [](WellFormed =>
            /\ PassLength \in 1..Len(data)
            /\ AfterTrain =>
                  /\ pointer = seq_length * (iteration % PassLength)
                  /\ pointer + seq_length + 1 <= Len(data)
                  /\ (iteration % PassLength = 0) <=> (init_state = Zeros /\ pointer = 0)
            /\ pc = "train" => ENABLED Train
            /\ (pc = "advance" /\ iteration < MaxIter) => ENABLED Advance)
    /\ [][(WellFormed /\ pc = "train" /\ iteration > 0
              /\ iteration % PassLength = 0) =>
            (pointer = seq_length * PassLength /\ pointer' = 0 /\ init_state' = Zeros)]_vars

\* the third pass over a corpus of two windows has started
PassesRepeatWitness ==
    /\ WellFormed
    /\ PassLength = 2
    /\ AfterTrain
    /\ iteration = 2 * PassLength
    /\ pointer = 0
    /\ init_state = Zeros
    /\ hprev_val # Zeros

\* C20: a training step that arrives at a cursor whose input window and
\* shifted target window both fit inside the corpus
\* (pointer + seq_length + 1 <= len(data)) trains at that cursor, so that
\* every such window, the last one of a corpus of m * seq_length + 1 symbols
\* included, is trained in every pass.
EveryFittingWindowTrained ==
    [][(/\ pc = "train"
        /\ pc' # "train"
        /\ iteration > 0
        /\ pointer + seq_length + 1 <= Len(data))
       => (/\ pointer' = pointer
           /\ input_sentence' = Slice(data, pointer, pointer + seq_length)
           /\ output_sentence' = Slice(data, pointer + 1, pointer + seq_length + 1))]_vars

====
